---- MODULE Spec2Model ----
(***************************************************************************)
(* Model of app/routes/user_routes.js: the sign-up, sign-in,               *)
(* change-password, update-artist, sign-out and read routes, run as        *)
(* concurrent requests against one shared user collection.  Every request  *)
(* is a chain of promise callbacks; the steps of a chain are the actions   *)
(* below, and the store is read or written at exactly one point of a step. *)
(***************************************************************************)
EXTENDS Integers, Sequences, FiniteSets, TLC

\* ------------------------------------------------------------------ bounds
MaxUsers == 2      \* records the collection may hold
MaxProcs == 2      \* requests in flight at the same time
MaxTokens == 3     \* calls of crypto.randomBytes over a run
MaxRequests == 4   \* requests received over a run

Procs == 1..MaxProcs
Emails == {"e1", "e2"}

\* ------------------------------------------------------------ JS values
Undefined == "undefined"          \* a property that is absent from the body
Falsy(v) == v = Undefined \/ v = ""   \* !v for a string-or-undefined v

\* Passwords of the requests.  "L1" and "L2" name two passwords of 73 bytes
\* that agree on their first 72 bytes; Bytes gives each password's content.
Passwords == {"p1", "L1", "L2"}
PasswordInputs == Passwords \cup {Undefined, ""}
Long72 == [i \in 1..72 |-> 97]
Bytes(pw) ==
  CASE pw = "" -> << >>
    [] pw = "p1" -> <<112, 49>>
    [] pw = "L1" -> Long72 \o <<120>>
    [] pw = "L2" -> Long72 \o <<121>>

\* req.params.id is text of the path: MalformedId stands for one that is not
\* the text of an identifier of the store; the other ids are positions
MalformedId == 0

\* ---------------------------------------------------------------- bcrypt
bcryptSaltRounds == 10
BcryptMaxBytes == 72              \* bcrypt reads the first 72 bytes of the key

Key(pw) ==
  LET b == Bytes(pw)
  IN IF Len(b) > BcryptMaxBytes THEN SubSeq(b, 1, BcryptMaxBytes) ELSE b

NoHash == [cost |-> 0, digest |-> << >>]

\* bcrypt.hash(pw, rounds).  The digest stands for the one-way image of the
\* key under the salt bcrypt draws; the salt travels inside the hash and only
\* bcrypt.compare reads it, so two hashes accept the same plaintexts exactly
\* when their keys are equal.
BcryptHash(pw, rounds) == [cost |-> rounds, digest |-> Key(pw)]

\* bcrypt.compare(data, hash) rejects (does not resolve false) when data is
\* null or undefined.
CompareRejects(data) == data = Undefined
BcryptCompare(data, hash) == Key(data) = hash.digest

\* ---------------------------------------------------------------- tokens
NoToken == [enc |-> "none", n |-> 0]
\* crypto.randomBytes(16).toString('hex'): the n-th draw, hex text
HexToken(n) == [enc |-> "hex", n |-> n]
\* crypto.randomBytes(16): the n-th draw, a raw Buffer
RawToken(n) == [enc |-> "raw", n |-> n]
AllTokens == {[enc |-> e, n |-> k] : e \in {"hex", "raw"}, k \in 1..MaxTokens}

\* ----------------------------------------------------------------- state
VARIABLES
  users,     \* the User collection: a sequence of documents, id = position
  procs,     \* the requests, one per slot: the one in flight or the last one
  nextTok,   \* number of the next crypto.randomBytes draw
  nreq,      \* requests received so far
  tokHist,   \* history: per user id, the tokens handed to save(), in order
  lastChange \* history: per user id, the passwords of the last saved change

vars == <<users, procs, nextTok, nreq, tokHist, lastChange>>

\* ------------------------------------------------------- documents, bodies
NoDoc ==
  [id |-> 0, email |-> Undefined, hashedPassword |-> NoHash, token |-> NoToken,
   name |-> Undefined, location |-> Undefined, biography |-> Undefined,
   artwork |-> << >>]

\* req.body (with the bearer token of the Authorization header and the :id of
\* the path) of a request.  present is FALSE when the object the route reads
\* (credentials, passwords) is absent from the body.
NoBody ==
  [present |-> FALSE, email |-> Undefined, password |-> Undefined,
   password_confirmation |-> Undefined, name |-> Undefined,
   location |-> Undefined, biography |-> Undefined,
   old |-> Undefined, new |-> Undefined, bearer |-> NoToken, id |-> 0]

NoResp == [status |-> 0, err |-> "none", users |-> << >>]
NoChange == [old |-> Undefined, new |-> Undefined]

\* A request: the route, the callback it waits for, its body, the document it
\* holds (user, or req.user) and its response.  Two history fields: seen is
\* lastChange of the user as the sign-in read the record; stale is TRUE when
\* the record's token was no longer the one the request had read as it saved.
Idle ==
  [kind |-> "idle", pc |-> "idle", body |-> NoBody, user |-> NoDoc, resp |-> NoResp,
   seen |-> NoChange, stale |-> FALSE]

\* a slot takes a request when it is free: no request yet, or the last one ended
Free(p) == procs[p].pc \in {"idle", "done"} /\ nreq < MaxRequests

\* ------------------------------------------------ the User model (mongoose)
Ids == 1..Len(users)

\* user.toObject(): the schema's transform deletes hashedPassword
toObject(doc) == [doc EXCEPT !.hashedPassword = NoHash]

\* User.findOne({ email })
FindOneByEmail(email) ==
  IF \E i \in Ids : users[i].email = email
  THEN users[CHOOSE i \in Ids : users[i].email = email]
  ELSE NoDoc

\* User.findById(id) rejects with a CastError when id cannot be cast to the
\* type of the identifiers
CastRejects(id) == id = MalformedId

\* User.findById(id)
FindById(id) == IF id \in Ids THEN users[id] ELSE NoDoc

\* The bearer strategy: no token in the request fails without a lookup,
\* otherwise User.findOne({ token }).
BearerVerify(token) ==
  IF token = NoToken \/ ~(\E i \in Ids : users[i].token = token)
  THEN NoDoc
  ELSE users[CHOOSE i \in Ids : users[i].token = token]

\* handle404(record) throws DocumentNotFoundError when there is no record
handle404Throws(record) == record = NoDoc

\* User.create(obj) is refused by the unique index on email
CreateRefused(obj) == \E i \in Ids : users[i].email = obj.email

\* save() that leaves a token in place once the record has one
SavedPathsKeep(doc, paths) ==
  [users EXCEPT ![doc.id] =
     [f \in DOMAIN @ |-> IF f \in paths /\ ~(f = "token" /\ @[f] # NoToken)
                         THEN doc[f] ELSE @[f]]]

\* save() that writes the whole document as the request holds it
SavedWhole(doc, paths) == [users EXCEPT ![doc.id] = doc]

\* doc.save() writes the paths the request modified, and no other path
SavedPaths(doc, paths) ==
  [users EXCEPT ![doc.id] = [f \in DOMAIN @ |-> IF f \in paths THEN doc[f] ELSE @[f]]]

\* ----------------------------------------------------------- responses
\* an error that is handed on while the chain goes on
FailedGoesOn(q, kind) ==
  [q EXCEPT !.resp = [status |-> 0, err |-> kind, users |-> << >>]]

\* next(err): the error goes to the error handler, which ends the request
Failed(q, kind) ==
  [q EXCEPT !.pc = "done", !.user = NoDoc,
            !.resp = [status |-> 0, err |-> kind, users |-> << >>]]

\* passport fails the request: 401 Unauthorized, the route handler does not run
Rejected(q) ==
  [q EXCEPT !.pc = "done", !.user = NoDoc,
            !.resp = [status |-> 401, err |-> "Unauthorized", users |-> << >>]]

\* res.status(status).json(...) or res.sendStatus(status)
Sent(q, status, objs) ==
  [q EXCEPT !.pc = "done", !.user = NoDoc,
            !.resp = [status |-> status, err |-> "none", users |-> objs]]

\* ------------------------------------------------------------- request bodies
ProfileInputs ==
  {[name |-> Undefined, location |-> Undefined, biography |-> Undefined],
   [name |-> "Ann", location |-> "Oslo", biography |-> "Paints"]}

\* password and password_confirmation of the sign-up bodies: the pairs the
\* route accepts, and one pair for each way it refuses
ValidPasswordPairs == {<<"p1", "p1">>, <<"L1", "L1">>}
InvalidPasswordPairs ==
  {<<Undefined, Undefined>>, <<"", "">>, <<"p1", "L1">>, <<"p1", Undefined>>}

SignUpBody(e, pair, f) ==
  [NoBody EXCEPT !.present = TRUE, !.email = e, !.password = pair[1],
                 !.password_confirmation = pair[2], !.name = f.name,
                 !.location = f.location, !.biography = f.biography]

SignUpBodies ==
  {NoBody} \cup
  {SignUpBody(e, pair, f) : e \in Emails, pair \in ValidPasswordPairs, f \in ProfileInputs} \cup
  {SignUpBody("e1", pair, CHOOSE f \in ProfileInputs : f.name = Undefined) :
     pair \in InvalidPasswordPairs}

SignInBodies ==
  {NoBody} \cup
  {[NoBody EXCEPT !.present = TRUE, !.email = e, !.password = pw] :
     e \in Emails, pw \in PasswordInputs}

\* the bearer tokens a client can present: none, or a value some save stored
Bearers == {NoToken} \cup {t \in AllTokens : \E i \in Ids : \E k \in 1..Len(tokHist[i]) : tokHist[i][k] = t}

\* old and new of the change-password bodies
PasswordChanges ==
  {<<"L1", "L2">>, <<"L1", "p1">>, <<"p1", "L2">>,
   <<"p1", "">>, <<"p1", Undefined>>, <<Undefined, "">>, <<Undefined, "p1">>}

ChangePasswordBodies ==
  {[NoBody EXCEPT !.bearer = t] : t \in Bearers} \cup
  {[NoBody EXCEPT !.bearer = t, !.present = TRUE, !.old = c[1], !.new = c[2]] :
     t \in Bearers, c \in PasswordChanges}

UpdateArtistBodies ==
  {[NoBody EXCEPT !.bearer = t] : t \in Bearers} \cup
  {[NoBody EXCEPT !.bearer = t, !.present = TRUE, !.name = f.name,
                  !.location = f.location, !.biography = f.biography] :
     t \in Bearers, f \in ProfileInputs}

SignOutBodies == {[NoBody EXCEPT !.bearer = t] : t \in Bearers}

ShowBodies == {[NoBody EXCEPT !.id = i] : i \in {MalformedId} \cup 1..MaxUsers}

\* ------------------------------------------------------------ requireToken
\* a check that looks the token up even when the request carries none
requireTokenLax(q, pc) ==
  IF \E i \in Ids : users[i].token = q.body.bearer
  THEN [q EXCEPT !.pc = pc,
                 !.user = users[CHOOSE i \in Ids : users[i].token = q.body.bearer]]
  ELSE Rejected(q)

\* passport.authenticate('bearer', { session: false }) in front of a route:
\* the request q is rejected, or goes to the handler at pc with req.user set
requireToken(q, pc) ==
  LET user == BearerVerify(q.body.bearer)
  IN IF user = NoDoc THEN Rejected(q) ELSE [q EXCEPT !.pc = pc, !.user = user]

\* ---------------------------------------------------------------- sign-up
\* a check that forgets password_confirmation
SignUpInvalidNoConfirm(credentials) ==
  ~credentials.present \/ Falsy(credentials.password)

\* POST /sign-up: the credentials check of the first callback
SignUpInvalid(credentials) ==
  \/ ~credentials.present
  \/ Falsy(credentials.password)
  \/ credentials.password # credentials.password_confirmation

\* the request arrives; the first callback checks the credentials
SignUpStart(p, b) ==
  /\ Free(p)
  /\ LET q == [Idle EXCEPT !.kind = "sign-up", !.body = b]
     IN procs' = [procs EXCEPT ![p] =
                    IF SignUpInvalid(b) THEN Failed(q, "BadParamsError")
                    ELSE [q EXCEPT !.pc = "create"]]
  /\ nreq' = nreq + 1
  /\ UNCHANGED <<users, nextTok, tokHist, lastChange>>

\* the object handed to User.create
SignUpCredentials(b, hash) ==
  [NoDoc EXCEPT !.name = b.name,
                !.email = b.email,
                !.hashedPassword = hash,
                !.location = IF Falsy(b.location) THEN "No Location Given" ELSE b.location,
                !.biography = IF Falsy(b.biography) THEN "No Biography Found" ELSE b.biography,
                !.artwork = << >>]

\* a sign-up that answers 201 when the store refuses the insert
SignUpCreateSwallow(p) ==
  /\ procs[p].kind = "sign-up" /\ procs[p].pc = "create"
  /\ LET hash == BcryptHash(procs[p].body.password, bcryptSaltRounds)
         obj == SignUpCredentials(procs[p].body, hash)
         doc == [obj EXCEPT !.id = Len(users) + 1]
     IN IF CreateRefused(obj)
        THEN /\ procs' = [procs EXCEPT ![p].pc = "respond", ![p].user = obj]
             /\ UNCHANGED <<users, tokHist, lastChange>>
        ELSE /\ Len(users) < MaxUsers
             /\ users' = Append(users, doc)
             /\ tokHist' = Append(tokHist, << >>)
             /\ lastChange' = Append(lastChange, NoChange)
             /\ procs' = [procs EXCEPT ![p].pc = "respond", ![p].user = doc]
  /\ UNCHANGED <<nextTok, nreq>>

\* bcrypt.hash resolves, the credentials are built, User.create inserts them
SignUpCreate(p) ==
  /\ procs[p].kind = "sign-up" /\ procs[p].pc = "create"
  /\ LET hash == BcryptHash(procs[p].body.password, bcryptSaltRounds)
         obj == SignUpCredentials(procs[p].body, hash)
         doc == [obj EXCEPT !.id = Len(users) + 1]
     IN IF CreateRefused(obj)
        THEN /\ procs' = [procs EXCEPT ![p] = Failed(@, "StoreError")]
             /\ UNCHANGED <<users, tokHist, lastChange>>
        ELSE /\ Len(users) < MaxUsers
             /\ users' = Append(users, doc)
             /\ tokHist' = Append(tokHist, << >>)
             /\ lastChange' = Append(lastChange, NoChange)
             /\ procs' = [procs EXCEPT ![p].pc = "respond", ![p].user = doc]
  /\ UNCHANGED <<nextTok, nreq>>

SignUpRespond(p) ==
  /\ procs[p].kind = "sign-up" /\ procs[p].pc = "respond"
  /\ procs' = [procs EXCEPT ![p] = Sent(@, 201, <<toObject(procs[p].user)>>)]
  /\ UNCHANGED <<users, nextTok, nreq, tokHist, lastChange>>

\* ---------------------------------------------------------------- sign-in
\* the request arrives and User.findOne({ email }) resolves
SignInStart(p, b) ==
  /\ Free(p)
  /\ LET q == [Idle EXCEPT !.kind = "sign-in", !.body = b]
         record == FindOneByEmail(b.email)
     IN procs' = [procs EXCEPT ![p] =
                    IF ~b.present THEN Failed(q, "TypeError")
                    ELSE IF record = NoDoc THEN Failed(q, "BadCredentialsError")
                    ELSE [q EXCEPT !.pc = "compare", !.user = record,
                                   !.seen = lastChange[record.id]]]
  /\ nreq' = nreq + 1
  /\ UNCHANGED <<users, nextTok, tokHist, lastChange>>

\* a token that is not drawn anew for each sign-in
SignInTokenFixed(n) == HexToken(1)

\* the token a sign-in puts on the document: the n-th draw as hex text
SignInToken(n) == HexToken(n)

\* a sign-in that draws and saves the token before it looks at the result of
\* the comparison
SignInSaveFirst(p) ==
  /\ procs[p].kind = "sign-in" /\ procs[p].pc = "compare"
  /\ IF CompareRejects(procs[p].body.password)
     THEN /\ procs' = [procs EXCEPT ![p] = Failed(@, "Error")]
          /\ UNCHANGED <<users, nextTok, tokHist>>
     ELSE /\ nextTok <= MaxTokens
          /\ LET doc == [procs[p].user EXCEPT !.token = HexToken(nextTok)]
             IN /\ users' = SavedPaths(doc, {"token"})
                /\ tokHist' = [tokHist EXCEPT ![doc.id] = Append(@, doc.token)]
                /\ procs' =
                     IF BcryptCompare(procs[p].body.password, procs[p].user.hashedPassword)
                     THEN [procs EXCEPT ![p].pc = "respond", ![p].user = doc,
                                        ![p].stale = users[doc.id].token # procs[p].user.token]
                     ELSE [procs EXCEPT ![p] = Failed(@, "BadCredentialsError")]
          /\ nextTok' = nextTok + 1
  /\ UNCHANGED <<nreq, lastChange>>

\* bcrypt.compare resolves; on a match the token is drawn and user.save()
\* writes it
SignInSave(p) ==
  /\ procs[p].kind = "sign-in" /\ procs[p].pc = "compare"
  /\ IF CompareRejects(procs[p].body.password)
     THEN /\ procs' = [procs EXCEPT ![p] = Failed(@, "Error")]
          /\ UNCHANGED <<users, nextTok, tokHist>>
     ELSE IF BcryptCompare(procs[p].body.password, procs[p].user.hashedPassword)
     THEN /\ nextTok <= MaxTokens
          /\ LET doc == [procs[p].user EXCEPT !.token = SignInToken(nextTok)]
             IN /\ users' = SavedPaths(doc, {"token"})
                /\ tokHist' = [tokHist EXCEPT ![doc.id] = Append(@, doc.token)]
                /\ procs' = [procs EXCEPT ![p].pc = "respond", ![p].user = doc,
                                ![p].stale = users[doc.id].token # procs[p].user.token]
          /\ nextTok' = nextTok + 1
     ELSE /\ procs' = [procs EXCEPT ![p] = Failed(@, "BadCredentialsError")]
          /\ UNCHANGED <<users, nextTok, tokHist>>
  /\ UNCHANGED <<nreq, lastChange>>

SignInRespond(p) ==
  /\ procs[p].kind = "sign-in" /\ procs[p].pc = "respond"
  /\ procs' = [procs EXCEPT ![p] = Sent(@, 201, <<toObject(procs[p].user)>>)]
  /\ UNCHANGED <<users, nextTok, nreq, tokHist, lastChange>>

\* --------------------------------------------------------- change-password
\* the request arrives and passes requireToken
ChangePasswordStart(p, b) ==
  /\ Free(p)
  /\ procs' = [procs EXCEPT ![p] =
                 requireToken([Idle EXCEPT !.kind = "change-password", !.body = b], "find")]
  /\ nreq' = nreq + 1
  /\ UNCHANGED <<users, nextTok, tokHist, lastChange>>

\* User.findById(req.user.id) resolves
ChangePasswordFind(p) ==
  /\ procs[p].kind = "change-password" /\ procs[p].pc = "find"
  /\ procs' = [procs EXCEPT ![p].pc = "compare", ![p].user = FindById(procs[p].user.id)]
  /\ UNCHANGED <<users, nextTok, nreq, tokHist, lastChange>>

\* the check after bcrypt.compare: the new password is missing or empty, or
\* the old one was wrong
ChangePasswordInvalid(passwords, correctPassword) ==
  Falsy(passwords.new) \/ ~correctPassword

\* a change that hashes the old password again
ChangePasswordHashOld(passwords) == BcryptHash(passwords.old, bcryptSaltRounds)

\* the hash that replaces hashedPassword
ChangePasswordHash(passwords) == BcryptHash(passwords.new, bcryptSaltRounds)

\* bcrypt.compare resolves, the passwords are checked, the new one is hashed
\* and user.save() writes the hash
ChangePasswordSave(p) ==
  /\ procs[p].kind = "change-password" /\ procs[p].pc = "compare"
  /\ LET b == procs[p].body
         user == procs[p].user
     IN IF ~b.present
        THEN /\ procs' = [procs EXCEPT ![p] = Failed(@, "TypeError")]
             /\ UNCHANGED <<users, lastChange>>
        ELSE IF CompareRejects(b.old)
        THEN /\ procs' = [procs EXCEPT ![p] = Failed(@, "Error")]
             /\ UNCHANGED <<users, lastChange>>
        ELSE IF ChangePasswordInvalid(b, BcryptCompare(b.old, user.hashedPassword))
        THEN /\ procs' = [procs EXCEPT ![p] = Failed(@, "BadParamsError")]
             /\ UNCHANGED <<users, lastChange>>
        ELSE LET doc == [user EXCEPT !.hashedPassword = ChangePasswordHash(b)]
             IN /\ users' = SavedPaths(doc, {"hashedPassword"})
                /\ lastChange' = [lastChange EXCEPT ![doc.id] = [old |-> b.old, new |-> b.new]]
                /\ procs' = [procs EXCEPT ![p].pc = "respond", ![p].user = doc]
  /\ UNCHANGED <<nextTok, nreq, tokHist>>

ChangePasswordRespond(p) ==
  /\ procs[p].kind = "change-password" /\ procs[p].pc = "respond"
  /\ procs' = [procs EXCEPT ![p] = Sent(@, 204, << >>)]
  /\ UNCHANGED <<users, nextTok, nreq, tokHist, lastChange>>

\* ------------------------------------------------------------ update-artist
UpdateArtistStart(p, b) ==
  /\ Free(p)
  /\ procs' = [procs EXCEPT ![p] =
                 requireToken([Idle EXCEPT !.kind = "update-artist", !.body = b], "find")]
  /\ nreq' = nreq + 1
  /\ UNCHANGED <<users, nextTok, tokHist, lastChange>>

\* User.findById(req.user.id) resolves
UpdateArtistFind(p) ==
  /\ procs[p].kind = "update-artist" /\ procs[p].pc = "find"
  /\ procs' = [procs EXCEPT ![p].pc = "save", ![p].user = FindById(procs[p].user.id)]
  /\ UNCHANGED <<users, nextTok, nreq, tokHist, lastChange>>

\* the credentials object of the second callback
UpdateArtistCredentials(b) ==
  [name |-> IF Falsy(b.name) THEN "Anonymous" ELSE b.name,
   location |-> IF Falsy(b.location) THEN "No Location Given" ELSE b.location,
   biography |-> IF Falsy(b.biography) THEN "No Biography Found" ELSE b.biography]

\* an update that adds the biography to the one the document has
UpdateArtistSetAppend(user, credentials) ==
  [user EXCEPT !.name = credentials.name,
               !.location = credentials.location,
               !.biography = user.biography \o credentials.biography]

\* the third callback sets the three fields on the document
UpdateArtistSet(user, credentials) ==
  [user EXCEPT !.name = credentials.name,
               !.location = credentials.location,
               !.biography = credentials.biography]

\* the three fields are set on the document and user.save() writes those
\* that changed
UpdateArtistSave(p) ==
  /\ procs[p].kind = "update-artist" /\ procs[p].pc = "save"
  /\ LET b == procs[p].body
         user == procs[p].user
         credentials == UpdateArtistCredentials(b)
         doc == UpdateArtistSet(user, credentials)
     IN IF ~b.present
        THEN /\ procs' = [procs EXCEPT ![p] = Failed(@, "TypeError")]
             /\ UNCHANGED users
        ELSE /\ users' = SavedPaths(doc, {f \in {"name", "location", "biography"} :
                                             doc[f] # user[f]})
             /\ procs' = [procs EXCEPT ![p].pc = "respond", ![p].user = doc]
  /\ UNCHANGED <<nextTok, nreq, tokHist, lastChange>>

UpdateArtistRespond(p) ==
  /\ procs[p].kind = "update-artist" /\ procs[p].pc = "respond"
  /\ procs' = [procs EXCEPT ![p] = Sent(@, 204, << >>)]
  /\ UNCHANGED <<users, nextTok, nreq, tokHist, lastChange>>

\* ----------------------------------------------------------------- sign-out
SignOutStart(p, b) ==
  /\ Free(p)
  /\ procs' = [procs EXCEPT ![p] =
                 requireToken([Idle EXCEPT !.kind = "sign-out", !.body = b], "save")]
  /\ nreq' = nreq + 1
  /\ UNCHANGED <<users, nextTok, tokHist, lastChange>>

\* a sign-out that leaves the token as it was
SignOutTokenKept(user, n) == user.token

\* the token a sign-out puts on req.user: the n-th draw, not hex-encoded
SignOutToken(user, n) == RawToken(n)

\* the token is drawn and req.user.save() writes it
SignOutSave(p) ==
  /\ procs[p].kind = "sign-out" /\ procs[p].pc = "save"
  /\ nextTok <= MaxTokens
  /\ LET doc == [procs[p].user EXCEPT !.token = SignOutToken(procs[p].user, nextTok)]
     IN /\ users' = SavedPaths(doc, {"token"})
        /\ tokHist' = [tokHist EXCEPT ![doc.id] = Append(@, doc.token)]
        /\ procs' = [procs EXCEPT ![p].pc = "respond", ![p].user = doc,
                        ![p].stale = users[doc.id].token # procs[p].user.token]
  /\ nextTok' = nextTok + 1
  /\ UNCHANGED <<nreq, lastChange>>

SignOutRespond(p) ==
  /\ procs[p].kind = "sign-out" /\ procs[p].pc = "respond"
  /\ procs' = [procs EXCEPT ![p] = Sent(@, 204, << >>)]
  /\ UNCHANGED <<users, nextTok, nreq, tokHist, lastChange>>

\* -------------------------------------------------------------- read routes
\* a list of the documents as the store holds them
userListRaw == [i \in Ids |-> users[i]]

\* users.map(user => user.toObject())
userList == [i \in Ids |-> toObject(users[i])]

\* GET /view-artists: User.find() resolves and every document is sent
ViewArtists(p) ==
  /\ Free(p)
  /\ procs' = [procs EXCEPT ![p] =
                 Sent([Idle EXCEPT !.kind = "view-artists"], 200, userList)]
  /\ nreq' = nreq + 1
  /\ UNCHANGED <<users, nextTok, tokHist, lastChange>>

\* GET /artists/:id: User.findById rejects, or resolves and handle404 throws
\* on no document
ShowArtist(p, b) ==
  /\ Free(p)
  /\ LET q == [Idle EXCEPT !.kind = "show-artist", !.body = b]
         user == FindById(b.id)
     IN procs' = [procs EXCEPT ![p] =
                    IF CastRejects(b.id) THEN Failed(q, "CastError")
                    ELSE IF handle404Throws(user) THEN Failed(q, "DocumentNotFoundError")
                    ELSE Sent(q, 200, <<toObject(user)>>)]
  /\ nreq' = nreq + 1
  /\ UNCHANGED <<users, nextTok, tokHist, lastChange>>

\* ----------------------------------------------------------- specification
Init ==
  /\ users = << >>
  /\ procs = [p \in Procs |-> Idle]
  /\ nextTok = 1
  /\ nreq = 0
  /\ tokHist = << >>
  /\ lastChange = << >>

Next ==
  \E p \in Procs :
    \/ \E b \in SignUpBodies : SignUpStart(p, b)
    \/ SignUpCreate(p)
    \/ SignUpRespond(p)
    \/ \E b \in SignInBodies : SignInStart(p, b)
    \/ SignInSave(p)
    \/ SignInRespond(p)
    \/ \E b \in ChangePasswordBodies : ChangePasswordStart(p, b)
    \/ ChangePasswordFind(p)
    \/ ChangePasswordSave(p)
    \/ ChangePasswordRespond(p)
    \/ \E b \in UpdateArtistBodies : UpdateArtistStart(p, b)
    \/ UpdateArtistFind(p)
    \/ UpdateArtistSave(p)
    \/ UpdateArtistRespond(p)
    \/ \E b \in SignOutBodies : SignOutStart(p, b)
    \/ SignOutSave(p)
    \/ SignOutRespond(p)
    \/ ViewArtists(p)
    \/ \E b \in ShowBodies : ShowArtist(p, b)

Spec == Init /\ [][Next]_vars

\* ================================================================ properties
IsDone(p, kind) == procs[p].kind = kind /\ procs[p].pc = "done"
Ok(p, status) == procs[p].resp.err = "none" /\ procs[p].resp.status = status
FailedWith(p, kind) == procs[p].pc = "done" /\ procs[p].resp.err = kind
Last(seq) == seq[Len(seq)]
\* the token of the user object in the response of p
Returned(p) == procs[p].resp.users[1].token
ReturnedId(p) == procs[p].resp.users[1].id
\* a was handed to save() for user i before b was
Before(i, a, b) ==
  \E j, k \in 1..Len(tokHist[i]) : j < k /\ tokHist[i][j] = a /\ tokHist[i][k] = b
AuthRoutes == {"change-password", "update-artist", "sign-out"}

\* C1: a user has at most one bearer token that the auth middleware accepts:
\* every token saved for the user earlier, and so every token an earlier
\* sign-in returned, is rejected once a later sign-in or sign-out has saved
\* its token.
C1_SingleSession ==
  /\ \A i \in Ids : Cardinality({t \in AllTokens : BearerVerify(t).id = i}) <= 1
  /\ \A i \in Ids : \A k \in 1..(Len(tokHist[i]) - 1) : BearerVerify(tokHist[i][k]) = NoDoc
  /\ \A p \in Procs :
       IsDone(p, "sign-in") /\ Ok(p, 201) =>
         /\ \E k \in 1..Len(tokHist[ReturnedId(p)]) : tokHist[ReturnedId(p)][k] = Returned(p)
         /\ users[ReturnedId(p)].token = Returned(p) \/ BearerVerify(Returned(p)) = NoDoc

\* a token a sign-in returned has been replaced by a sign-out and is rejected
C1_Witness ==
  \E p \in Procs :
    /\ IsDone(p, "sign-in") /\ Ok(p, 201)
    /\ Len(tokHist[ReturnedId(p)]) = 2
    /\ tokHist[ReturnedId(p)][1] = Returned(p)
    /\ tokHist[ReturnedId(p)][2].enc = "raw"
    /\ BearerVerify(Returned(p)) = NoDoc

\* C2: after a sign-out authenticated with T has responded 204, T is not
\* accepted, and the token the sign-out stored is in no response.
C2_SignOutFinal ==
  /\ \A p \in Procs :
       IsDone(p, "sign-out") /\ Ok(p, 204) => BearerVerify(procs[p].body.bearer) = NoDoc
  /\ \A p \in Procs : \A k \in DOMAIN procs[p].resp.users :
       procs[p].resp.users[k].token.enc # "raw"

\* C3: a sign-in that fails fails with BadCredentials, whether the email
\* matched no record or the password did not match the record's hash.
C3_SameError ==
  \A p \in Procs :
    IsDone(p, "sign-in") /\ procs[p].body.present /\ procs[p].resp.err # "none"
      => procs[p].resp.err = "BadCredentialsError"

\* C4: a sign-in whose password matches the hash of the record it found
\* saves a token never saved for that user before and responds 201 with that
\* token; two sign-ins of one account return different tokens.
C4_Responses ==
  /\ \A i \in Ids : \A j, k \in 1..Len(tokHist[i]) : j # k => tokHist[i][j] # tokHist[i][k]
  /\ \A p \in Procs :
       IsDone(p, "sign-in") /\ procs[p].resp.err = "none" =>
         /\ procs[p].resp.status = 201
         /\ Len(procs[p].resp.users) = 1
         /\ Returned(p) # NoToken
         /\ \E k \in 1..Len(tokHist[ReturnedId(p)]) : tokHist[ReturnedId(p)][k] = Returned(p)
  /\ \A p, q \in Procs :
       /\ p # q /\ IsDone(p, "sign-in") /\ IsDone(q, "sign-in")
       /\ Ok(p, 201) /\ Ok(q, 201) /\ ReturnedId(p) = ReturnedId(q)
       => Returned(p) # Returned(q)

\* the step of a sign-in whose password matches the hash it read: the token
\* it saves is new for the user, and the request goes on to its response
C4_Step ==
  \A p \in Procs :
    /\ procs[p].kind = "sign-in" /\ procs[p].pc = "compare" /\ procs'[p].pc # "compare"
    /\ ~Falsy(procs[p].body.password)
    /\ Key(procs[p].body.password) = procs[p].user.hashedPassword.digest
    => /\ procs'[p].pc = "respond"
       /\ procs'[p].user.token # NoToken
       /\ users'[procs[p].user.id].token = procs'[p].user.token
       /\ \A k \in 1..Len(tokHist[procs[p].user.id]) :
            tokHist[procs[p].user.id][k] # procs'[p].user.token

\* C4: every response of a sign-in is as C4_Responses says, and every sign-in
\* whose password matches takes the step C4_Step describes.
C4_FreshToken == []C4_Responses /\ [][C4_Step]_vars

\* two sign-ins of one account have both responded 201
C4_Witness ==
  \E p, q \in Procs :
    /\ p # q /\ IsDone(p, "sign-in") /\ IsDone(q, "sign-in")
    /\ Ok(p, 201) /\ Ok(q, 201) /\ ReturnedId(p) = ReturnedId(q)

\* the bodies C5 speaks of
C5_Refused(b) ==
  \/ ~b.present
  \/ b.password = Undefined
  \/ b.password = ""
  \/ b.password # b.password_confirmation

\* C5: a sign-up whose password is missing, empty or different from
\* password_confirmation, or whose credentials are absent, ends in BadParams
\* and no step of it changes the stored records.
C5_NoRecord ==
  /\ [](\A p \in Procs :
          IsDone(p, "sign-up") /\ C5_Refused(procs[p].body)
            => procs[p].resp.err = "BadParamsError")
  /\ [][\A p \in Procs :
          procs'[p].kind = "sign-up" /\ procs'[p] # procs[p] /\ C5_Refused(procs'[p].body)
            => users' = users]_vars

\* a sign-up with a confirmation that differs has been refused
C5_Witness ==
  \E p \in Procs :
    /\ IsDone(p, "sign-up") /\ procs[p].body.present
    /\ ~Falsy(procs[p].body.password)
    /\ procs[p].body.password_confirmation \notin {Undefined, procs[p].body.password}
    /\ procs[p].resp.err = "BadParamsError"
    /\ Len(users) > 0

\* C6: an authenticated change-password whose new password is missing or
\* empty, or whose old password does not match the stored hash, fails with
\* BadParams and leaves the stored hash as it was.
C6_SameBadParams ==
  [][\A p \in Procs :
       /\ procs[p].kind = "change-password" /\ procs[p].pc = "compare"
       /\ procs'[p].pc # "compare" /\ procs[p].body.present
       /\ \/ Falsy(procs[p].body.new)
          \/ procs[p].body.old = Undefined
          \/ Key(procs[p].body.old) # procs[p].user.hashedPassword.digest
       => /\ procs'[p].resp.err = "BadParamsError"
          /\ users' = users]_vars

\* the sign-ins C7 speaks of: they read the record after a change was saved
C7_After(p) ==
  /\ procs[p].kind = "sign-in" /\ procs[p].pc \in {"respond", "done"}
  /\ procs[p].seen # NoChange
C7_SignedIn(p) == procs[p].pc = "respond" \/ Ok(p, 201)

\* C7 as stated: after a change-password the stored hash is that of the new
\* password, a later sign-in with the new password succeeds and one with the
\* old password, when it differs from the new one, fails with BadCredentials.
C7_OldRejected ==
  /\ \A i \in Ids :
       lastChange[i] # NoChange => BcryptCompare(lastChange[i].new, users[i].hashedPassword)
  /\ \A p \in Procs :
       C7_After(p) =>
         /\ procs[p].body.password = procs[p].seen.new => C7_SignedIn(p)
         /\ procs[p].body.password = procs[p].seen.old
              /\ procs[p].seen.old # procs[p].seen.new
              => FailedWith(p, "BadCredentialsError")

\* C7 amended: the sign-in with the old password fails when the old and the
\* new password differ within the 72 bytes bcrypt reads.
C7_AfterChange ==
  /\ \A i \in Ids :
       lastChange[i] # NoChange => BcryptCompare(lastChange[i].new, users[i].hashedPassword)
  /\ \A p \in Procs :
       C7_After(p) =>
         /\ procs[p].body.password = procs[p].seen.new => C7_SignedIn(p)
         /\ procs[p].body.password = procs[p].seen.old
              /\ Key(procs[p].seen.old) # Key(procs[p].seen.new)
              => FailedWith(p, "BadCredentialsError")

\* after a change of password a sign-in with the old password has failed
C7_Witness ==
  \E p \in Procs :
    /\ C7_After(p)
    /\ procs[p].body.password = procs[p].seen.old
    /\ FailedWith(p, "BadCredentialsError")

\* C8: a change-password, update-artist or sign-out request whose bearer
\* token is absent or is the stored token of no user ends at once with
\* Unauthorized, its handler never runs, and no record changes.
C8_Unauthorized ==
  /\ [](\A p \in Procs :
          procs[p].kind \in AuthRoutes /\ procs[p].pc # "done" => procs[p].user.id \in Ids)
  /\ [][\A p \in Procs :
          /\ nreq' # nreq /\ procs'[p] # procs[p] /\ procs'[p].kind \in AuthRoutes
          /\ \/ procs'[p].body.bearer = NoToken
             \/ \A i \in Ids : users[i].token # procs'[p].body.bearer
          => /\ FailedWith(p, "Unauthorized")'
             /\ users' = users]_vars

\* a token that was replaced has been presented and refused
C8_Witness ==
  \E p \in Procs :
    /\ procs[p].kind \in AuthRoutes /\ FailedWith(p, "Unauthorized")
    /\ procs[p].body.bearer # NoToken
    /\ \E i \in Ids : Len(tokHist[i]) >= 2 /\ tokHist[i][1] = procs[p].body.bearer

\* C9: the stored token is the one of the last save; when two sign-ins of
\* one account have both responded 201, the token of the one that saved
\* first is rejected and, unless a later request saved another, the token of
\* the one that saved last is the stored one.
C9_LastWriteWins ==
  /\ \A i \in Ids : tokHist[i] # << >> => users[i].token = Last(tokHist[i])
  /\ \A p, q \in Procs :
       /\ IsDone(p, "sign-in") /\ IsDone(q, "sign-in") /\ Ok(p, 201) /\ Ok(q, 201)
       /\ ReturnedId(p) = ReturnedId(q)
       /\ Before(ReturnedId(p), Returned(p), Returned(q))
       => /\ BearerVerify(Returned(p)) = NoDoc
          /\ Last(tokHist[ReturnedId(q)]) = Returned(q)
               => BearerVerify(Returned(q)).id = ReturnedId(q)

\* two sign-ins of one account overlapped: q read the record before p saved
\* and saved after it; both have responded 201
C9_Witness ==
  \E p, q \in Procs :
    /\ IsDone(p, "sign-in") /\ IsDone(q, "sign-in") /\ Ok(p, 201) /\ Ok(q, 201)
    /\ ReturnedId(p) = ReturnedId(q)
    /\ tokHist[ReturnedId(p)] = <<Returned(p), Returned(q)>>
    /\ procs[q].stale
    /\ users[ReturnedId(q)].token = Returned(q)

\* C10: no two records have the same email; a sign-up whose email is stored
\* when its insert runs fails with the store's error and adds no record.
C10_UniqueEmail ==
  /\ [](/\ \A i, j \in Ids : i # j => users[i].email # users[j].email
        /\ \A p \in Procs :
             IsDone(p, "sign-up") /\ procs[p].resp.err = "StoreError"
               => \E i \in Ids : users[i].email = procs[p].body.email)
  /\ [][\A p \in Procs :
          /\ procs[p].kind = "sign-up" /\ procs[p].pc = "create" /\ procs'[p] # procs[p]
          /\ \E i \in Ids : users[i].email = procs[p].body.email
          => /\ FailedWith(p, "StoreError")'
             /\ users' = users]_vars

\* two sign-ups with one email overlapped: one has inserted and not yet
\* responded, the other has been refused by the store
C10_Witness ==
  \E p, q \in Procs :
    /\ procs[p].kind = "sign-up" /\ procs[p].pc = "respond"
    /\ IsDone(q, "sign-up") /\ procs[q].resp.err = "StoreError"
    /\ procs[q].body.email = procs[p].body.email

\* the fields of a record a request of the route may change
C11_Own(kind) ==
  CASE kind \in {"sign-in", "sign-out"} -> {"token"}
    [] kind = "change-password" -> {"hashedPassword"}
    [] kind = "update-artist" -> {"name", "location", "biography"}
    [] OTHER -> {}

\* C11: a step of a request changes, in the records that exist, only the
\* fields of its route (sign-in and sign-out: token; change-password:
\* hashedPassword; update-artist: name, location, biography; the read routes
\* and sign-up: none); no step removes a record or changes the id, email or
\* artwork of one, and only a step of a sign-up adds a record, one at a time.
C11_Frame ==
  [][/\ Len(users') >= Len(users)
     /\ \A i \in Ids :
          /\ users'[i].id = users[i].id
          /\ users'[i].email = users[i].email
          /\ users'[i].artwork = users[i].artwork
     /\ \A p \in Procs :
          procs'[p] # procs[p] =>
            /\ \A i \in Ids : \A f \in DOMAIN users[i] :
                 users'[i][f] # users[i][f] => f \in C11_Own(procs'[p].kind)
            /\ Len(users') # Len(users) =>
                 procs'[p].kind = "sign-up" /\ Len(users') = Len(users) + 1]_vars

\* an update-artist saved while a sign-in held the record it had read, and
\* the sign-in then saved its token: the profile the update wrote is stored
C11_Witness ==
  \E p \in Procs :
    /\ procs[p].kind = "sign-in" /\ procs[p].pc = "respond"
    /\ procs[p].user.location # users[procs[p].user.id].location
    /\ users[procs[p].user.id].token = procs[p].user.token

\* what C12 says is stored for a field: the supplied value, or the sentinel
C12_Expected(b) ==
  [name |-> IF b.name \in {Undefined, ""} THEN "Anonymous" ELSE b.name,
   location |-> IF b.location \in {Undefined, ""} THEN "No Location Given" ELSE b.location,
   biography |-> IF b.biography \in {Undefined, ""} THEN "No Biography Found" ELSE b.biography]

\* C12: when an update-artist request has saved (it goes on to respond 204),
\* name, location and biography of the authenticated user's record are the
\* supplied values, or the sentinels for those omitted, whatever was stored.
C12_Stored ==
  [][\A p \in Procs :
       /\ procs[p].kind = "update-artist" /\ procs[p].pc = "save"
       /\ procs'[p].pc = "respond"
       => \A f \in {"name", "location", "biography"} :
            users'[procs[p].user.id][f] = C12_Expected(procs[p].body)[f]]_vars

\* the profile fields of a body, each supplied or not (omitted, or empty)
C13_Inputs ==
  {[NoBody EXCEPT !.present = TRUE, !.name = n, !.location = l, !.biography = g] :
     n \in {Undefined, "Ann"}, l \in {"", "Oslo"}, g \in {Undefined, "Paints"}}

\* the record stored once an update-artist request with body b has found the
\* stored record r and saved, no other request saving in between
C13_Once(r, b) ==
  LET doc == UpdateArtistSet(r, UpdateArtistCredentials(b))
  IN [f \in DOMAIN r |-> IF doc[f] # r[f] THEN doc[f] ELSE r[f]]

\* the step of an update-artist that found the record as it is stored
C13_Step ==
  \A p \in Procs :
    /\ procs[p].kind = "update-artist" /\ procs[p].pc = "save"
    /\ procs'[p].pc = "respond"
    /\ procs[p].user = users[procs[p].user.id]
    => /\ users' = [users EXCEPT ![procs[p].user.id] = C13_Once(@, procs[p].body)]
       /\ users[procs[p].user.id] = C13_Once(users[procs[p].user.id], procs[p].body)
            => users' = users

\* C13: for every stored record and every input, an update-artist performed
\* on the record a first one left stores that same record again; and a
\* request that runs on its own stores what C13_Once says, so that a second
\* one in a row leaves the store as the first left it.
C13_Idempotent ==
  /\ [](\A i \in Ids : \A b \in C13_Inputs :
          C13_Once(C13_Once(users[i], b), b) = C13_Once(users[i], b))
  /\ [][C13_Step]_vars

\* two update-artist requests with one body: one has responded 204, the
\* other has found the record the first left and saved it unchanged
C13_Witness ==
  \E p, q \in Procs :
    /\ IsDone(q, "update-artist") /\ Ok(q, 204)
    /\ procs[p].kind = "update-artist" /\ procs[p].pc = "respond"
    /\ procs[p].body = procs[q].body
    /\ procs[p].body.name = "Ann"
    /\ procs[p].user = users[procs[p].user.id]

\* C14: a sign-up that succeeds adds exactly one record, with the supplied
\* name, location and biography, each at its sentinel when absent from the
\* input, an empty artwork and the hash of the supplied password, and
\* responds 201.
C14_Created ==
  /\ [](\A p \in Procs :
          IsDone(p, "sign-up") /\ procs[p].resp.err = "none" =>
            procs[p].resp.status = 201 /\ Len(procs[p].resp.users) = 1)
  /\ [][\A p \in Procs :
          /\ procs[p].kind = "sign-up" /\ procs[p].pc = "create"
          /\ procs'[p].pc = "respond"
          => /\ Len(users') = Len(users) + 1
             /\ \A i \in Ids : users'[i] = users[i]
             /\ LET b == procs[p].body
                    r == users'[Len(users')]
                IN /\ r.name = IF b.name = Undefined THEN "Anonymous" ELSE b.name
                   /\ r.location =
                        IF b.location = Undefined THEN "No Location Given" ELSE b.location
                   /\ r.biography =
                        IF b.biography = Undefined THEN "No Biography Found" ELSE b.biography
                   /\ r.artwork = << >>
                   /\ r.email = b.email
                   /\ r.hashedPassword = BcryptHash(b.password, bcryptSaltRounds)]_vars

\* C15: no user object of any response carries a hashedPassword.
C15_NoHash ==
  \A p \in Procs : \A k \in DOMAIN procs[p].resp.users :
    procs[p].resp.users[k].hashedPassword = NoHash

\* view-artists has answered with two records, both stored with a hash
C15_Witness ==
  \E p \in Procs :
    /\ IsDone(p, "view-artists") /\ Ok(p, 200)
    /\ Len(procs[p].resp.users) = 2
    /\ \A i \in Ids : users[i].hashedPassword # NoHash

\* the ways a request ends
C16_Success(resp) == resp.err = "none" /\ resp.status \in {200, 201, 204}
C16_Forwarded(resp) == resp.err \notin {"none", "Unauthorized"} /\ resp.status = 0
C16_Refused(resp) == resp.err = "Unauthorized" /\ resp.status = 401

\* the callback request p waits for is about to fail: a comparison that
\* fails or rejects, an insert the store refuses, a body without the object
\* the callback reads
C16_Fails(p) ==
  LET q == procs[p]
  IN \/ /\ q.kind = "sign-up" /\ q.pc = "create"
        /\ \E i \in Ids : users[i].email = q.body.email
     \/ /\ q.kind = "sign-in" /\ q.pc = "compare"
        /\ \/ q.body.password = Undefined
           \/ Key(q.body.password) # q.user.hashedPassword.digest
     \/ /\ q.kind = "change-password" /\ q.pc = "compare"
        /\ \/ ~q.body.present
           \/ q.body.old = Undefined
           \/ Key(q.body.old) # q.user.hashedPassword.digest
           \/ q.body.new \in {Undefined, ""}
     \/ /\ q.kind = "update-artist" /\ q.pc = "save" /\ ~q.body.present

\* the first callback of the request that p takes in this step fails: the
\* credentials of a sign-up are refused, a sign-in finds no record or has no
\* credentials, an id has no record
C16_FailsAtOnce(p) ==
  LET b == procs'[p].body
  IN /\ nreq' # nreq /\ procs'[p] # procs[p]
     /\ \/ procs'[p].kind = "sign-up" /\ C5_Refused(b)
        \/ /\ procs'[p].kind = "sign-in"
           /\ ~b.present \/ \A i \in Ids : users[i].email # b.email
        \/ procs'[p].kind = "show-artist" /\ b.id \notin Ids

C16_Step ==
  \A p \in Procs :
    /\ (procs'[p] # procs[p] /\ C16_Fails(p)) \/ C16_FailsAtOnce(p)
         => /\ procs'[p].pc = "done"
            /\ C16_Forwarded(procs'[p].resp)
            /\ users' = users
    /\ procs'[p] # procs[p] /\ procs'[p].pc = "done" /\ procs'[p].resp.err # "none"
         => users' = users
    /\ procs'[p] # procs[p] /\ procs[p].pc = "done"
         => nreq' = nreq + 1 /\ users' = users

\* C16: a request whose step fails ends in that step with the error handed
\* to the error handler, and the step writes nothing; a request that has
\* ended takes no further step (its slot changes only as a new request
\* arrives), so it writes nothing and sends nothing after the failure; a
\* request in flight has neither answered nor handed on an error, and one
\* that has ended has done exactly one of the two (or was refused by the
\* auth middleware before its handler ran).
C16_Aborts ==
  /\ [](\A p \in Procs :
          /\ procs[p].pc # "done" => procs[p].resp = NoResp
          /\ procs[p].pc = "done" =>
               /\ C16_Success(procs[p].resp) \/ C16_Forwarded(procs[p].resp)
                    \/ (C16_Refused(procs[p].resp) /\ procs[p].kind \in AuthRoutes)
               /\ ~(C16_Success(procs[p].resp) /\ C16_Forwarded(procs[p].resp)))
  /\ [][C16_Step]_vars

\* a change-password with a new password and a wrong old one has ended with
\* an error, and a sign-up was refused by the store
C16_Witness ==
  \E p, q \in Procs :
    /\ IsDone(p, "change-password") /\ C16_Forwarded(procs[p].resp)
    /\ ~Falsy(procs[p].body.new) /\ procs[p].body.old # Undefined
    /\ IsDone(q, "sign-up") /\ procs[q].resp.err = "StoreError"

\* C17: GET /artists/:id fails with NotFound when no stored record has the
\* id, and otherwise responds 200 with the record that has that id, and with
\* no other.
C17_Show ==
  [][\A p \in Procs :
       /\ nreq' # nreq /\ procs'[p] # procs[p] /\ procs'[p].kind = "show-artist"
       => LET id == procs'[p].body.id
          IN IF id \in Ids
             THEN /\ Ok(p, 200)'
                  /\ procs'[p].resp.users = <<[users[id] EXCEPT !.hashedPassword = NoHash]>>
                  /\ procs'[p].resp.users[1].id = id
             ELSE FailedWith(p, "DocumentNotFoundError")']_vars

\* the last change of the password of user id was saved and has responded
C18_Changed(id) ==
  /\ lastChange[id] # NoChange
  /\ \A q \in Procs :
       ~(procs[q].kind = "change-password" /\ procs[q].pc = "respond"
         /\ procs[q].user.id = id)

\* C18: a sign-in saves its token only if the password it was given matches
\* the hash stored as it saves, and a sign-in with the old password saves no
\* token once a change to a password that differs from it (within the bytes
\* bcrypt reads) has completed.
C18_ChecksStoredHash ==
  [][\A p \in Procs :
       /\ procs[p].kind = "sign-in" /\ procs[p].pc = "compare"
       /\ procs'[p].pc = "respond"
       => LET id == procs[p].user.id
              pw == procs[p].body.password
          IN /\ BcryptCompare(pw, users[id].hashedPassword)
             /\ ~(/\ C18_Changed(id)
                   /\ pw = lastChange[id].old
                   /\ Key(lastChange[id].old) # Key(lastChange[id].new))]_vars

\* C19: the save of a sign-out replaces only the token the sign-out was
\* authenticated with: a token that a sign-in has returned with 201, that is
\* the stored one and is not the one the sign-out presented, is still the
\* stored one after the save.
C19_OwnTokenOnly ==
  [][\A p \in Procs :
       /\ procs[p].kind = "sign-out" /\ procs[p].pc = "save"
       /\ procs'[p].pc = "respond"
       => \A q \in Procs :
            /\ IsDone(q, "sign-in") /\ Ok(q, 201)
            /\ ReturnedId(q) = procs[p].user.id
            /\ users[ReturnedId(q)].token = Returned(q)
            /\ Returned(q) # procs[p].body.bearer
            => /\ users'[ReturnedId(q)].token = Returned(q)
               /\ BearerVerify(Returned(q))'.id = ReturnedId(q)]_vars

\* C20: no step of a sign-in that ends with BadCredentials changes a stored
\* record: neither the step in which it arrives and looks the email up nor
\* the step in which it fails; every token accepted before the step is
\* accepted after it, for the same user.
C20_FailedSignIn ==
  [][\A p \in Procs :
       /\ procs'[p] # procs[p] /\ procs'[p].kind = "sign-in"
       /\ \/ FailedWith(p, "BadCredentialsError")'
          \/ nreq' # nreq
       => /\ users' = users
          /\ \A i \in Ids :
               /\ users'[i].token = users[i].token
               /\ BearerVerify(users[i].token)' = BearerVerify(users[i].token)]_vars

\* a sign-in with a wrong password for a signed-in account has failed, and
\* the token of the account is accepted
C20_Witness ==
  \E p \in Procs : \E i \in Ids :
    /\ IsDone(p, "sign-in") /\ FailedWith(p, "BadCredentialsError")
    /\ users[i].email = procs[p].body.email
    /\ procs[p].body.password # Undefined
    /\ users[i].token # NoToken
    /\ BearerVerify(users[i].token).id = i

====
